---------------------------- MODULE Spec2Model ----------------------------
(***************************************************************************)
(* battle-monsters: the turn-based combat resolver (simulate_battle) and   *)
(* the HTTP handlers around the Fighter Store (monsters) and the Contest   *)
(* Store (battles).                                                        *)
(*                                                                         *)
(* A Monster is modelled by the fields the program computes with: id,      *)
(* attack, defense, hp and speed.  name and image_url are opaque strings   *)
(* no handler reads, and created_at / updated_at are timestamps no handler *)
(* branches on; they are left out.                                         *)
(***************************************************************************)
EXTENDS Integers, Sequences, FiniteSets, TLC

(***************************************************************************)
(* i32, the type of attack, defense, hp and speed (models/monster.rs).     *)
(***************************************************************************)
MaxI32 == 2147483647
MinI32 == (-MaxI32) - 1

(* Bounds of the inputs the model enumerates. *)
MaxStat == 2
MaxSpeed == 2
MaxHp == 3

(* x - y leaves the i32 range.  Written so that no intermediate value does. *)
SubOverflows(x, y) ==
    \/ (y < 0 /\ x >= 0 /\ x > MaxI32 + y)
    \/ (y > 0 /\ x < 0 /\ x < MinI32 + y)

(* x - y in two's complement (what a build without overflow checks computes). *)
WrappingSub(x, y) ==
    IF y < 0 /\ x >= 0 /\ x > MaxI32 + y
    THEN ((x - MaxI32) - 1) - ((y + MaxI32) + 1)
    ELSE IF y > 0 /\ x < 0 /\ x < MinI32 + y
    THEN ((x + MaxI32) + 1) + ((MaxI32 - y) + 1)
    ELSE x - y

VARIABLES
    overflow_checks,  \* the build: TRUE panics on i32 overflow, FALSE wraps
    monsters,         \* the monsters table: id -> Monster
    battles,          \* the battles table: id -> Battle
    uuids,            \* how many ids of Uuid::new_v4 have been stored (the id made
                      \* for a rejected insert is dropped and never seen again)
    response,         \* the last HTTP response
    fresh,            \* history: the battles whose two fighters are as they fought
    battle_request,   \* history: what the last request was to POST /battles:
                      \* "none" (another handler), "rejected" (it returned before
                      \* simulate_battle) or "simulated" (it called it)
    call,             \* the frame of one simulate_battle call
    in_a, in_b,       \* history: the two fighters as passed to the call
    log               \* history: one entry per turn played

store == <<monsters, battles, uuids, response, fresh, battle_request>>
resolver == <<call, in_a, in_b, log>>
vars == <<overflow_checks, store, resolver>>

Monster(i, a, d, h, s) ==
    [id |-> i, attack |-> a, defense |-> d, hp |-> h, speed |-> s]

NoMonster == Monster(0, 0, 0, 0, 0)

(***************************************************************************)
(* simulate_battle, battle_apis.rs:82-113.                                 *)
(***************************************************************************)

(* A variant that ranks attack before speed. *)
monster_a_turn_attack_first(monster_a, monster_b) ==
    \/ monster_a.attack > monster_b.attack
    \/ (monster_a.attack = monster_b.attack /\ monster_a.speed > monster_b.speed)

(* A variant that gives a tie on speed and attack to A. *)
monster_a_turn_ties_to_a(monster_a, monster_b) ==
    \/ monster_a.speed > monster_b.speed
    \/ (monster_a.speed = monster_b.speed /\ monster_a.attack >= monster_b.attack)

(* let mut monster_a_turn = ...; lines 84-89 *)
monster_a_turn_init(monster_a, monster_b) ==
    \/ monster_a.speed > monster_b.speed
    \/ (monster_a.speed = monster_b.speed /\ monster_a.attack > monster_b.attack)

(* The frame on entry to the loop. *)
Enter(monster_a, monster_b) ==
    [pc |-> "loop",
     monster_a |-> monster_a,
     monster_b |-> monster_b,
     monster_a_turn |-> monster_a_turn_init(monster_a, monster_b),
     ret |-> NoMonster]

(* let (attacker, defender) = ...; lines 92-96 *)
attacker(s) == IF s.monster_a_turn THEN s.monster_a ELSE s.monster_b
defender(s) == IF s.monster_a_turn THEN s.monster_b ELSE s.monster_a

(* A variant that clamps to 0 instead of 1. *)
damage_clamp_zero(att, dfn) ==
    IF att.attack > dfn.defense
    THEN WrappingSub(att.attack, dfn.defense)
    ELSE 0

(* A variant that subtracts the attacker's own defense. *)
damage_own_defense(att, dfn) ==
    IF att.attack > att.defense
    THEN WrappingSub(att.attack, att.defense)
    ELSE 1

(* let damage = ...; lines 98-102.  The subtraction is i32 arithmetic. *)
damage(att, dfn) ==
    IF att.attack > dfn.defense
    THEN WrappingSub(att.attack, dfn.defense)
    ELSE 1

damage_overflows(att, dfn) ==
    att.attack > dfn.defense /\ SubOverflows(att.attack, dfn.defense)

(* The defender after the hit of lines 104-108. *)
hit(dfn, dmg) ==
    IF dfn.hp > dmg
    THEN [dfn EXCEPT !.hp = WrappingSub(dfn.hp, dmg)]
    ELSE [dfn EXCEPT !.hp = 0]

WithDefender(s, dfn) ==
    IF s.monster_a_turn
    THEN [s EXCEPT !.monster_b = dfn]
    ELSE [s EXCEPT !.monster_a = dfn]

(* A variant that never swaps the roles (line 111 missing). *)
Loop_no_swap(s, checks) ==
    LET att == attacker(s)
        dfn == defender(s)
        dmg == damage(att, dfn)
    IN  IF checks /\ damage_overflows(att, dfn)
        THEN [s EXCEPT !.pc = "panic"]
        ELSE IF dfn.hp > dmg
        THEN IF checks /\ SubOverflows(dfn.hp, dmg)
             THEN [s EXCEPT !.pc = "panic"]
             ELSE WithDefender(s, hit(dfn, dmg))
        ELSE [WithDefender(s, hit(dfn, dmg))
                  EXCEPT !.pc = "done", !.ret = att]

(* One iteration of the loop, lines 91-112. *)
Loop(s, checks) ==
    LET att == attacker(s)
        dfn == defender(s)
        dmg == damage(att, dfn)
    IN  IF checks /\ damage_overflows(att, dfn)
        THEN [s EXCEPT !.pc = "panic"]
        ELSE IF dfn.hp > dmg
        THEN IF checks /\ SubOverflows(dfn.hp, dmg)
             THEN [s EXCEPT !.pc = "panic"]
             ELSE [WithDefender(s, hit(dfn, dmg))
                       EXCEPT !.monster_a_turn = ~s.monster_a_turn]
        ELSE [WithDefender(s, hit(dfn, dmg))
                  EXCEPT !.pc = "done", !.ret = att]

(* The bound on the turns of a modelled call. *)
TurnCap == 2 * MaxHp + 2

StatVals == {-1} \cup (0..MaxStat)
ExtremeVals == StatVals \cup {MinI32, MaxI32}
PositiveVals == (1..MaxStat) \cup {MaxI32}
SpeedVals == 1..MaxSpeed
HpVals == 0..MaxHp

Fighters(i, stats, hps) ==
    {Monster(i, a, d, h, s) : a \in stats, d \in stats, h \in hps, s \in SpeedVals}

(* Scenario A of the specification (section 8). *)
ScenarioA_a == Monster(1, 50, 10, 100, 20)
ScenarioA_b == Monster(2, 30, 5, 100, 15)

NoRows == [i \in {} |-> NoMonster]

StoreEmpty ==
    /\ monsters = NoRows
    /\ battles = NoRows
    /\ uuids = 0
    /\ response = [status |-> 0]
    /\ fresh = {}
    /\ battle_request = "none"

(* A call of simulate_battle on two fighters drawn from pairs. *)
InitCall(pairs) ==
    /\ overflow_checks \in BOOLEAN
    /\ StoreEmpty
    /\ \E pair \in pairs : in_a = pair[1] /\ in_b = pair[2]
    /\ call = Enter(in_a, in_b)
    /\ log = <<>>

InitResolve ==
    InitCall((Fighters(1, StatVals, HpVals) \X Fighters(2, StatVals, HpVals))
                 \cup {<<ScenarioA_a, ScenarioA_b>>})

InitExtreme ==
    InitCall(Fighters(1, ExtremeVals, HpVals) \X Fighters(2, ExtremeVals, HpVals))

(* hp is a plain i32 that simulate_battle never checks (lines 82-113). *)
UnvalidatedHp == {MinI32, -1, 0, 1}

InitUnvalidated ==
    InitCall(Fighters(1, ExtremeVals, UnvalidatedHp) \X Fighters(2, ExtremeVals, UnvalidatedHp))

InitPositive ==
    InitCall(Fighters(1, PositiveVals, 1..MaxHp) \X Fighters(2, PositiveVals, 1..MaxHp))

(* One turn of the call in progress.  log gets an entry for every turn whose *)
(* damage was applied (a panicking turn applies none).                        *)
Turn ==
    /\ call.pc = "loop"
    /\ Len(log) < TurnCap
    /\ call' = Loop(call, overflow_checks)
    /\ log' = IF call'.pc = "panic"
              THEN log
              ELSE Append(log, [monster_a_turn |-> call.monster_a_turn,
                                damage |-> damage(attacker(call), defender(call)),
                                hp |-> IF call.monster_a_turn
                                       THEN call'.monster_b.hp
                                       ELSE call'.monster_a.hp])
    /\ UNCHANGED <<overflow_checks, in_a, in_b, store>>

NextResolve == Turn

SpecResolve == InitResolve /\ [][NextResolve]_vars

SpecExtreme == InitExtreme /\ [][NextResolve]_vars

SpecUnvalidated == InitUnvalidated /\ [][NextResolve]_vars

(* The loop runs on the handler's thread without suspension points: a turn *)
(* that can be played is played.                                           *)
FairSpecPositive == InitPositive /\ [][NextResolve]_vars /\ WF_vars(Turn)

(***************************************************************************)
(* The handlers of api/monster_apis.rs and api/battle_apis.rs over the two *)
(* tables.  Each handler is one action: it reads and writes the tables     *)
(* through the repository functions and ends with its HTTP response.       *)
(* simulate_battle works on owned copies and shares nothing, so the whole  *)
(* call is one step of create_battle.                                      *)
(***************************************************************************)

(* Bounds: the ids Uuid::new_v4 hands out in a run (each is new), and the *)
(* rows of an uploaded file.                                             *)
MaxUuids == 3
MaxRows == 2

(* HTTP status codes of the responses. *)
NoResponse == [status |-> 0]
Respond(code) == [status |-> code]

(* The bodies POST /monsters, PUT /monsters/{id} and the rows of an upload   *)
(* carry: any i32 stats deserialize (models/monster.rs); the id is replaced. *)
Payloads ==
    { Monster(0, 1, 1, 2, 1),
      Monster(0, 2, 1, 2, 1),
      Monster(0, 1, 1, 0, 1),
      Monster(0, 1, 1, -1, 1),
      Monster(0, 0, -1, 1, 1),
      Monster(0, MaxI32, -1, 1, 1) }

(* An identifier in a request: None, the id of a row of the table the     *)
(* handler looks it up in, or Unknown, which stands for every other string. *)
None == 0
Unknown == MaxUuids + 1
PathIds(table) == DOMAIN table \cup {Unknown}
RequestIds == PathIds(monsters) \cup {None}

Has(table, id) == id \in DOMAIN table
Without(table, id) == [i \in DOMAIN table \ {id} |-> table[i]]
With(table, id, row) == [i \in DOMAIN table \cup {id} |-> IF i = id THEN row ELSE table[i]]

(* monster_repository::create_monster, lines 14-25: a fresh id, then insert. *)
monster_repository_create_monster(table, n, monster) ==
    With(table, n + 1, [monster EXCEPT !.id = n + 1])

(* monster_repository::update_monster_by_id, lines 49-66: the primary key    *)
(* stays, every other column is replaced.                                    *)
monster_repository_update_monster_by_id(table, monster_id, monster) ==
    With(table, monster_id, [monster EXCEPT !.id = monster_id])

(* battle_repository::create_battle, lines 35-46: a fresh id, then insert. *)
battle_repository_create_battle(table, n, battle) ==
    With(table, n + 1, [battle EXCEPT !.id = n + 1])

(* The whole loop of simulate_battle; fuel bounds the turns evaluated. *)
RECURSIVE Run(_, _, _)
Run(s, checks, fuel) ==
    IF s.pc # "loop" \/ fuel = 0
    THEN s
    ELSE Run(Loop(s, checks), checks, fuel - 1)

simulate_battle(monster_a, monster_b, checks) ==
    Run(Enter(monster_a, monster_b), checks, TurnCap)

(* A variant that builds the Battle with monster_a's id twice. *)
new_battle_same_id(monster_a_id, monster_b_id, winner) ==
    [id |-> 0, monster_a |-> monster_a_id, monster_b |-> monster_a_id, winner |-> winner]

(* let battle = Battle {...}; battle_apis.rs lines 36-43 *)
new_battle(monster_a_id, monster_b_id, winner) ==
    [id |-> 0, monster_a |-> monster_a_id, monster_b |-> monster_b_id, winner |-> winner]

(* A variant that saves the two fighters as the simulation left them. *)
monsters_saved_after_battle(table, f) ==
    With(With(table, f.monster_a.id, f.monster_a), f.monster_b.id, f.monster_b)

(* The monsters table after create_battle, lines 26-48: the handler only     *)
(* reads it; f is the frame simulate_battle ended with.                      *)
monsters_after_create_battle(table, f) == table

(* The battles that stay fresh when fighter monster_id is written or deleted. *)
FreshWithout(monster_id) ==
    {b \in fresh : Has(battles, b) /\ battles[b].monster_a # monster_id
                                   /\ battles[b].monster_b # monster_id}

(* A variant that answers 404 Not Found for an id without a fighter. *)
monster_not_found_as_404 == Respond(404)

(* None => return HttpResponse::BadRequest(), lines 28 and 32. *)
monster_not_found == Respond(400)

(* POST /battles, battle_apis.rs:15-49 *)
create_battle(monster_a_id, monster_b_id) ==
    /\ UNCHANGED <<overflow_checks, resolver>>
    /\ \/ /\ monster_a_id = None \/ monster_b_id = None
          /\ response' = Respond(400)
          /\ battle_request' = "rejected"
          /\ UNCHANGED <<monsters, battles, uuids, fresh>>
       \/ /\ monster_a_id # None /\ monster_b_id # None
          /\ ~Has(monsters, monster_a_id) \/ ~Has(monsters, monster_b_id)
          /\ response' = monster_not_found
          /\ battle_request' = "rejected"
          /\ UNCHANGED <<monsters, battles, uuids, fresh>>
       \/ /\ monster_a_id # None /\ monster_b_id # None
          /\ Has(monsters, monster_a_id) /\ Has(monsters, monster_b_id)
          /\ battle_request' = "simulated"
          /\ LET f == simulate_battle(monsters[monster_a_id], monsters[monster_b_id],
                                      overflow_checks)
             IN  \/ /\ f.pc = "done"
                    /\ uuids < MaxUuids
                    /\ battles' = battle_repository_create_battle(
                                      battles, uuids,
                                      new_battle(monster_a_id, monster_b_id, f.ret.id))
                    /\ uuids' = uuids + 1
                    /\ monsters' = monsters_after_create_battle(monsters, f)
                    /\ fresh' = fresh \cup {uuids + 1}
                    /\ response' = Respond(201)
                 \/ /\ f.pc = "panic"
                    /\ response' = NoResponse
                    /\ UNCHANGED <<monsters, battles, uuids, fresh>>

(* GET /battles, battle_apis.rs:51-55 *)
get_battles ==
    /\ battle_request' = "none"
    /\ response' = Respond(200)
    /\ UNCHANGED <<overflow_checks, resolver, monsters, battles, uuids, fresh>>

(* GET /battles/{id}, battle_apis.rs:57-64 *)
get_battle_by_id(id) ==
    /\ battle_request' = "none"
    /\ response' = IF Has(battles, id) THEN Respond(200) ELSE Respond(404)
    /\ UNCHANGED <<overflow_checks, resolver, monsters, battles, uuids, fresh>>

(* DELETE /battles/{id}, battle_apis.rs:66-72 *)
delete_battle_by_id(id) ==
    /\ battle_request' = "none"
    /\ UNCHANGED <<overflow_checks, resolver, monsters, uuids>>
    /\ \/ /\ Has(battles, id)
          /\ battles' = Without(battles, id)
          /\ fresh' = fresh \ {id}
          /\ response' = Respond(204)
       \/ /\ ~Has(battles, id)
          /\ response' = Respond(404)
          /\ UNCHANGED <<battles, fresh>>

(* GET /monsters, monster_apis.rs:9-13 *)
get_monsters ==
    /\ battle_request' = "none"
    /\ response' = Respond(200)
    /\ UNCHANGED <<overflow_checks, resolver, monsters, battles, uuids, fresh>>

(* POST /monsters, monster_apis.rs:15-22.  insert_fails: the store rejects *)
(* the insert, and the .expect of monster_repository::create_monster      *)
(* panics; the function has no path that returns Err.                     *)
create_monster(new_monster, insert_fails) ==
    /\ battle_request' = "none"
    /\ UNCHANGED <<overflow_checks, resolver, battles, fresh>>
    /\ \/ /\ ~insert_fails
          /\ uuids < MaxUuids
          /\ monsters' = monster_repository_create_monster(monsters, uuids, new_monster)
          /\ uuids' = uuids + 1
          /\ response' = Respond(201)
       \/ /\ insert_fails
          /\ response' = NoResponse
          /\ UNCHANGED <<monsters, uuids>>

(* GET /monsters/{id}, monster_apis.rs:24-31 *)
get_monster_by_id(id) ==
    /\ battle_request' = "none"
    /\ response' = IF Has(monsters, id) THEN Respond(200) ELSE Respond(404)
    /\ UNCHANGED <<overflow_checks, resolver, monsters, battles, uuids, fresh>>

(* DELETE /monsters/{id}, monster_apis.rs:33-40 *)
delete_monster_by_id(id) ==
    /\ battle_request' = "none"
    /\ UNCHANGED <<overflow_checks, resolver, battles, uuids>>
    /\ \/ /\ Has(monsters, id)
          /\ monsters' = Without(monsters, id)
          /\ fresh' = FreshWithout(id)
          /\ response' = Respond(204)
       \/ /\ ~Has(monsters, id)
          /\ response' = Respond(404)
          /\ UNCHANGED <<monsters, fresh>>

(* PUT /monsters/{id}, monster_apis.rs:42-49 *)
update_monster_by_id(id, updated_monster) ==
    /\ battle_request' = "none"
    /\ UNCHANGED <<overflow_checks, resolver, battles, uuids>>
    /\ \/ /\ Has(monsters, id)
          /\ monsters' = monster_repository_update_monster_by_id(monsters, id, updated_monster)
          /\ fresh' = FreshWithout(id)
          /\ response' = Respond(200)
       \/ /\ ~Has(monsters, id)
          /\ response' = Respond(404)
          /\ UNCHANGED <<monsters, fresh>>

(* The bodies of POST /monsters/import_csv: one the handler rejects before *)
(* any row is submitted (no multipart field, a field without a file name,  *)
(* a row that does not deserialize as a Monster), or a file whose rows all *)
(* parse; failed is the set of rows whose insert the store rejects.        *)
Rejected(k) == [kind |-> k, rows |-> <<>>, failed |-> {}]
File(r, f) == [kind |-> "file", rows |-> r, failed |-> f]

(* The rows of a file: at most MaxRows, and no more than ids are left. *)
RowsRoom == IF MaxUuids - uuids < MaxRows THEN MaxUuids - uuids ELSE MaxRows

(* monster_repository::create_monster on each row in turn, lines 96-104. *)
RECURSIVE CreateEach(_, _, _)
CreateEach(table, n, rows) ==
    IF rows = <<>>
    THEN table
    ELSE CreateEach(monster_repository_create_monster(table, n, Head(rows)),
                    n + 1, Tail(rows))

(* The first row whose insert panics (0: none does). *)
FirstFailed(upload) ==
    IF upload.failed = {}
    THEN 0
    ELSE CHOOSE k \in upload.failed : \A j \in upload.failed : k <= j

(* POST /monsters/import_csv, monster_apis.rs:51-120.  The branch of lines  *)
(* 112-113 (no row persisted: 500) needs create_monster to return Err,      *)
(* which it never does.                                                     *)
import_csv(upload) ==
    /\ battle_request' = "none"
    /\ UNCHANGED <<overflow_checks, resolver, battles, fresh>>
    /\ \/ /\ upload.kind \in {"no field", "no file name", "bad row"}
          /\ response' = Respond(400)
          /\ UNCHANGED <<monsters, uuids>>
       \/ /\ upload.kind = "file"
          /\ upload.rows = <<>>
          /\ response' = Respond(400)
          /\ UNCHANGED <<monsters, uuids>>
       \/ /\ upload.kind = "file"
          /\ upload.rows # <<>>
          /\ FirstFailed(upload) = 0
          /\ monsters' = CreateEach(monsters, uuids, upload.rows)
          /\ uuids' = uuids + Len(upload.rows)
          /\ response' = Respond(200)
       \/ /\ upload.kind = "file"
          /\ FirstFailed(upload) > 0
          /\ monsters' = CreateEach(monsters, uuids,
                                    SubSeq(upload.rows, 1, FirstFailed(upload) - 1))
          /\ uuids' = uuids + (FirstFailed(upload) - 1)
          /\ response' = NoResponse

(* The bodies of PUT /monsters/{id}: the handler reads the body only when *)
(* the row exists, so one body stands for all when it does not.           *)
UpdateBodies(id) ==
    IF Has(monsters, id)
    THEN Payloads
    ELSE {Monster(0, 1, 1, 2, 1)}

Init ==
    /\ overflow_checks \in BOOLEAN
    /\ StoreEmpty
    /\ in_a = NoMonster
    /\ in_b = NoMonster
    /\ call = [Enter(NoMonster, NoMonster) EXCEPT !.pc = "idle"]
    /\ log = <<>>

Next ==
    \/ \E a \in RequestIds, b \in RequestIds : create_battle(a, b)
    \/ get_battles
    \/ \E id \in PathIds(battles) : get_battle_by_id(id)
    \/ \E id \in PathIds(battles) : delete_battle_by_id(id)
    \/ get_monsters
    \/ \E p \in Payloads, insert_fails \in BOOLEAN : create_monster(p, insert_fails)
    \/ \E id \in PathIds(monsters) : get_monster_by_id(id)
    \/ \E id \in PathIds(monsters) : delete_monster_by_id(id)
    \/ \E id \in PathIds(monsters) :
           \E p \in UpdateBodies(id) : update_monster_by_id(id, p)
    \/ \E k \in {"no field", "no file name", "bad row"} : import_csv(Rejected(k))
    \/ \E n \in 0..RowsRoom :
           \E r \in [1..n -> Payloads], f \in SUBSET (1..n) : import_csv(File(r, f))

Spec == Init /\ [][Next]_vars

(***************************************************************************)
(* Claims about simulate_battle.                                           *)
(***************************************************************************)
AllPositive(m) == m.attack > 0 /\ m.defense > 0 /\ m.speed > 0 /\ m.hp > 0

(* The initiative as the call established it before the first turn. *)
FirstIsA == IF log = <<>> THEN call.monster_a_turn ELSE log[1].monster_a_turn

(* The attack and the defense that met on the turn of log entry e. *)
AttackOf(e) == IF e.monster_a_turn THEN in_a.attack ELSE in_b.attack
DefenseOf(e) == IF e.monster_a_turn THEN in_b.defense ELSE in_a.defense

(* The fighter hit on the last turn played, as passed to the call. *)
LastDefender == IF log[Len(log)].monster_a_turn THEN in_b ELSE in_a
LastAttacker == IF log[Len(log)].monster_a_turn THEN in_a ELSE in_b

HitsOnA == Cardinality({i \in 1..Len(log) : ~log[i].monster_a_turn})
HitsOnB == Cardinality({i \in 1..Len(log) : log[i].monster_a_turn})

(* C1: for fighters whose attack, defense, speed and hp are all positive,  *)
(* the call terminates and returns a fighter whose id is A's or B's.       *)
C1_TerminatesWithAOrB ==
    (AllPositive(in_a) /\ AllPositive(in_b))
        ~> (call.pc = "done" /\ call.ret.id \in {in_a.id, in_b.id})

C1_Witness ==
    /\ AllPositive(in_a) /\ AllPositive(in_b)
    /\ in_a.attack = MaxI32 /\ in_b.hp > 1
    /\ call.pc = "done" /\ call.ret.id = in_b.id
    /\ Len(log) > 2

(* C2: the first attack is made by the fighter with strictly greater speed, *)
(* whatever the other stats; with equal speeds, by the one with strictly    *)
(* greater attack; symmetrically for A and B.                               *)
C2_FirstAttack ==
    /\ in_a.speed > in_b.speed => FirstIsA
    /\ in_b.speed > in_a.speed => ~FirstIsA
    /\ (in_a.speed = in_b.speed /\ in_a.attack > in_b.attack) => FirstIsA
    /\ (in_a.speed = in_b.speed /\ in_b.attack > in_a.attack) => ~FirstIsA

C2_Witness ==
    /\ Len(log) >= 1
    /\ in_a.speed > in_b.speed /\ in_a.attack < in_b.attack /\ in_a.hp < in_b.hp
    /\ log[1].monster_a_turn

(* C3: on every turn the damage applied is max(attack - defense, 1) for all *)
(* 32-bit attack and defense: at least 1, and the subtraction neither       *)
(* overflows nor aborts the call.                                           *)
C3_DamageIsClampedDifference ==
    /\ call.pc # "panic"
    /\ \A i \in 1..Len(log) :
          /\ log[i].damage >= 1
          /\ IF AttackOf(log[i]) > DefenseOf(log[i])
             THEN /\ ~SubOverflows(AttackOf(log[i]), DefenseOf(log[i]))
                  /\ log[i].damage = AttackOf(log[i]) - DefenseOf(log[i])
             ELSE log[i].damage = 1

(* C4: for inputs with hp > 0, no fighter's hp is ever below 0, and the     *)
(* fighter returned is the attacker of the turn that brought the opponent   *)
(* to exactly 0, which is the last turn played and the only one to reach 0. *)
C4_WinnerReducesToZero ==
    (in_a.hp > 0 /\ in_b.hp > 0) =>
        /\ call.monster_a.hp >= 0 /\ call.monster_b.hp >= 0
        /\ call.pc = "done" =>
              /\ call.ret.id = LastAttacker.id
              /\ log[Len(log)].hp = 0
              /\ (IF log[Len(log)].monster_a_turn
                  THEN call.monster_b.hp ELSE call.monster_a.hp) = 0
              /\ \A i \in 1..(Len(log) - 1) : log[i].hp > 0
        /\ call.pc = "loop" => \A i \in 1..Len(log) : log[i].hp > 0

(* C5: the attacker role alternates strictly: the fighter acting first      *)
(* attacks on exactly the odd turns, the other on exactly the even turns,   *)
(* and the initiative is never recomputed.                                  *)
C5_StrictAlternation ==
    /\ \A i \in 1..Len(log) :
          log[i].monster_a_turn = ((i % 2 = 1) = monster_a_turn_init(in_a, in_b))
    /\ call.pc = "loop" =>
          call.monster_a_turn = ((Len(log) % 2 = 0) = monster_a_turn_init(in_a, in_b))

C5_Witness ==
    /\ Len(log) >= 4
    /\ call.pc = "done"
    /\ ~monster_a_turn_init(in_a, in_b)

TurnBound == 2 * LastDefender.hp - (IF log[Len(log)].monster_a_turn = FirstIsA THEN 1 ELSE 0)

C8_ScenarioA_Deals40 ==
    (in_a = ScenarioA_a /\ in_b = ScenarioA_b) =>
        /\ FirstIsA
        /\ \A i \in 1..Len(log) :
              log[i].damage = (IF log[i].monster_a_turn THEN 40 ELSE 20)
        /\ call.pc = "done" => call.ret.id = in_a.id

(* C8 amended: Scenario A: A acts first, A deals 45 per turn (its attack 50 *)
(* less B's defense 5), B deals 20 per turn, and A is returned as the       *)
(* winner, on the fifth turn.                                               *)
C8_ScenarioA_Deals45 ==
    (in_a = ScenarioA_a /\ in_b = ScenarioA_b) =>
        /\ FirstIsA
        /\ \A i \in 1..Len(log) :
              log[i].damage = (IF log[i].monster_a_turn THEN 45 ELSE 20)
        /\ call.pc \in {"loop", "done"}
        /\ call.pc = "loop" => Len(log) < 5
        /\ call.pc = "done" => call.ret = [in_a EXCEPT !.hp = 60]

C8_Witness ==
    /\ in_a = ScenarioA_a /\ in_b = ScenarioA_b
    /\ call.pc = "done"
    /\ Len(log) = 5
    /\ call.ret.id = in_a.id

(***************************************************************************)
(* Claims about the handlers and the two stores.                           *)
(***************************************************************************)

(* The call POST /battles would make now on the two fighters of battle b. *)
Resolve(b) ==
    simulate_battle(monsters[b.monster_a], monsters[b.monster_b], overflow_checks)

C9_HigherAttackBWins ==
    \A b \in fresh :
        LET A == monsters[battles[b].monster_a]
            B == monsters[battles[b].monster_b]
        IN  (/\ A.speed = B.speed /\ A.defense = B.defense
             /\ A.hp = B.hp /\ A.hp > 0
             /\ B.attack > A.attack) =>
                /\ ~monster_a_turn_init(A, B)
                /\ battles[b].winner = battles[b].monster_b

(* C10: after any sequence of contest create/delete and fighter             *)
(* create/update/delete operations, every contest in the Contest Store has  *)
(* a winner equal to its monster_a or its monster_b.                        *)
C10_WinnerIsAParticipant ==
    \A b \in DOMAIN battles :
        battles[b].winner \in {battles[b].monster_a, battles[b].monster_b}

C10_Witness ==
    \E b \in DOMAIN battles :
        /\ battles[b].monster_a # battles[b].monster_b
        /\ battles[b].winner = battles[b].monster_b
        /\ ~Has(monsters, battles[b].monster_b)
        /\ Has(monsters, battles[b].monster_a)
        /\ b \notin fresh
        /\ response = Respond(204)

(***************************************************************************)
(* Claims about the handlers, continued.                                   *)
(***************************************************************************)

C12_HpNonNegativeAtRest ==
    \A id \in DOMAIN monsters : monsters[id].hp >= 0

(* C13: an import whose rows all parse and of which the store rejects some *)
(* but not all still submits every row: it answers 200 and the rows the    *)
(* store accepted, and only those, are added to the monsters table.        *)
C13_PartialImportIsReported ==
    [][\A n \in 1..RowsRoom :
          \A r \in [1..n -> Payloads], f \in SUBSET (1..n) :
              (f # {} /\ f # 1..n /\ import_csv(File(r, f)))
                  => /\ response' = Respond(200)
                     /\ Cardinality(DOMAIN monsters')
                            = Cardinality(DOMAIN monsters) + n - Cardinality(f)
                     /\ \A id \in DOMAIN monsters : Has(monsters', id)]_vars

(***************************************************************************)
(* Claims about simulate_battle, continued.                                *)
(***************************************************************************)

(* The fighter acting first and the other one, as passed to the call. *)
First == IF FirstIsA THEN in_a ELSE in_b
Second == IF FirstIsA THEN in_b ELSE in_a

(* C14: with equal speed and equal attack the first attack is B's, whatever *)
(* the defense and hp of the two fighters.                                  *)
C14_TieGivesFirstAttackToB ==
    (in_a.speed = in_b.speed /\ in_a.attack = in_b.attack) =>
        /\ ~FirstIsA
        /\ Len(log) >= 1 => ~log[1].monster_a_turn

C14_Witness ==
    /\ in_a.speed = in_b.speed /\ in_a.attack = in_b.attack
    /\ in_a.defense < in_b.defense /\ in_a.hp > in_b.hp
    /\ Len(log) >= 1
    /\ ~log[1].monster_a_turn

(* max(x.attack - y.defense, 1), and ceil(h / d) for h > 0 and d > 0. *)
Dmg(x, y) == IF x.attack - y.defense > 1 THEN x.attack - y.defense ELSE 1
CeilDiv(h, d) == ((h - 1) \div d) + 1
HitsFirst == CeilDiv(Second.hp, Dmg(First, Second))
HitsSecond == CeilDiv(First.hp, Dmg(Second, First))

(* C15: for hp > 0 and no overflow, with hitsF = ceil(S.hp / dmg(F, S)) and *)
(* hitsS = ceil(F.hp / dmg(S, F)): the call returns the first fighter F     *)
(* after exactly 2 * hitsF - 1 turns if hitsF <= hitsS, and the second      *)
(* fighter S after exactly 2 * hitsS turns otherwise.                       *)
C15_WinnerAndTurnsClosedForm ==
    (/\ in_a.hp > 0 /\ in_b.hp > 0
     /\ ~damage_overflows(in_a, in_b) /\ ~damage_overflows(in_b, in_a)) =>
        LET turns == IF HitsFirst <= HitsSecond
                     THEN 2 * HitsFirst - 1
                     ELSE 2 * HitsSecond
            winner == IF HitsFirst <= HitsSecond THEN First ELSE Second
        IN  /\ call.pc # "panic"
            /\ call.pc = "loop" => Len(log) < turns
            /\ call.pc = "done" => (Len(log) = turns /\ call.ret.id = winner.id)

C15_Witness ==
    /\ in_a.hp > 0 /\ in_b.hp > 0
    /\ HitsSecond = 2 /\ HitsFirst = 3
    /\ First.hp = 3 /\ Dmg(Second, First) = 2
    /\ call.pc = "done"
    /\ call.ret.id = Second.id
    /\ Len(log) = 4

(* C16: hp is not validated, and when the fighter acting second has hp <= 0 *)
(* at the call, the call ends on its first turn and returns the fighter     *)
(* acting first, whatever that fighter's own hp.                            *)
C16_NonPositiveSecondLosesInOneTurn ==
    Second.hp <= 0 =>
        /\ call.pc # "panic"
        /\ call.pc = "loop" => Len(log) = 0
        /\ call.pc = "done" => (Len(log) = 1 /\ call.ret.id = First.id)

=============================================================================
